---- MODULE Spec2Model ----
(***************************************************************************)
(* Black-Scholes implied-volatility solvers of src/black_scholes.py:       *)
(* iv_call_v2 (bracket expansion followed by brentq) and the fixed-bound   *)
(* reference solvers implied_volatility_call / implied_volatility_put      *)
(* reached through bs_implied_volatility.                                  *)
(*                                                                         *)
(* Numbers.  Volatilities and prices are floats in the program.  Here a    *)
(* volatility is an integer number of grid steps and a price an integer    *)
(* number of price quanta; a division rounds onto the grid (Quot).  The    *)
(* one float value that is not a number, NaN, is kept as a value of its    *)
(* own, with IEEE semantics: arithmetic on it gives NaN and every ordered  *)
(* comparison with it is false.  Products and differences of the modelled  *)
(* values are exact (the modelled range is far from float overflow and     *)
(* underflow).                                                             *)
(***************************************************************************)
EXTENDS Integers, Sequences, FiniteSets, TLC

\* ------------------------------------------------------------------ bounds
\* largest spot / strike, in price quanta
MaxPrice == 8
\* largest market price tried, in price quanta
MaxMarket == 9
\* largest time to expiry tried (0 is the malformed input t = 0)
MaxT == 2
\* largest iteration budget of the non-default solver configurations
MaxIterBound == 3
\* largest max_hi of the non-default solver configurations
MaxHiBound == 9
\* largest volatility of the round trip (sigma in (0, 5])
MaxSigma == 5

\* ------------------------------------------------------------ float values
\* np.nan: the float that is not a number
NaN == 1000000

IsNaN(a) == a = NaN

Abs(a) == IF a < 0 THEN -a ELSE a

Min(a, b) == IF a < b THEN a ELSE b

Max(a, b) == IF a > b THEN a ELSE b

\* float subtraction
FSub(a, b) == IF IsNaN(a) \/ IsNaN(b) THEN NaN ELSE a - b

\* float multiplication
FMul(a, b) == IF IsNaN(a) \/ IsNaN(b) THEN NaN ELSE a * b

\* float comparison a > b (false when either side is NaN)
FGt(a, b) == ~IsNaN(a) /\ ~IsNaN(b) /\ a > b

\* a quotient rounded toward zero onto the grid
Quot(a, b) == IF (a < 0) = (b < 0) THEN Abs(a) \div Abs(b) ELSE -(Abs(a) \div Abs(b))

\* ------------------------------------------------------------ the pricing
\* The closed forms use log, sqrt, exp and norm.cdf.  On the grid they keep
\* what floating point gives them: the value is the intrinsic value plus a
\* time value that is nondecreasing in sigma*t, it stays AT the intrinsic
\* value while sigma*t is too small for norm.cdf to leave 0 or 1, and it
\* stays AT its upper limit once norm.cdf(d1) = 1 and norm.cdf(d2) = 0.
\* The rate r is 0 in every modelled input, so K*exp(-r*t) = K.

\* S0/K with K = 0 raises ZeroDivisionError before any value is computed
DividesByZero(K) == K = 0

\* d1 is 0/0 when S0 = K and t = 0 (r = 0): the value is NaN
D1IsNaN(S0, K, t) == S0 = K /\ t = 0

\* the part of the value that depends on sigma, before the upper limit
TimeValue(S0, K, sigma, t) == Max(0, sigma * t - Abs(S0 - K))

bs_call(S0, K, sigma, t, r) ==
    IF D1IsNaN(S0, K, t) THEN NaN
    ELSE Min(S0, Max(S0 - K, 0) + TimeValue(S0, K, sigma, t))

bs_put(S0, K, sigma, t, r) ==
    IF D1IsNaN(S0, K, t) THEN NaN
    ELSE Min(K, Max(K - S0, 0) + TimeValue(S0, K, sigma, t))

\* ------------------------------------------------------------------ inputs
Rate == 0

\* the pricing inputs of one call; K = 0, t = 0 and a NaN market price are
\* the malformed ones
PricingInputs ==
    [S0 : {1, MaxPrice}, K : {0, 1, MaxPrice - 3, MaxPrice}, t : 0..MaxT,
     market_price : (0..MaxMarket) \cup {NaN}]

\* iv_call_v2's keyword defaults on the grid: vol_lo = xtol (both 1e-12 in
\* the source), vol_hi = 50, max_hi = 2000, maxiter = 200; rtol is 1/rtol_den
DefaultConfig ==
    [vol_lo |-> 2, vol_hi |-> 50, max_hi |-> 2000, xtol |-> 2,
     rtol_den |-> 100000, maxiter |-> 200]

\* other configurations a caller passes: 0 < vol_lo < vol_hi <= max_hi
OtherConfigs ==
    {c \in [vol_lo : {1, 2}, vol_hi : {2, 3}, max_hi : {4, 5, MaxHiBound}, xtol : {2},
            rtol_den : {4, 100000}, maxiter : 1..MaxIterBound] : c.vol_lo < c.vol_hi}

SolverConfigs == {DefaultConfig} \cup OtherConfigs

\* brentq's own defaults, used by the reference solvers: xtol = 2e-12,
\* rtol = 4*eps, maxiter = 100
BrentqDefaults == [xtol |-> 2, rtol_den |-> 100000, maxiter |-> 100]

\* sigma_bounds a caller of the reference solvers passes
SigmaBounds == {<<1, 2>>, <<1, 20>>, <<2, 7>>}

OptionTypes == {"call", "put", "straddle"}

\* ------------------------------------------------------------------- state
VARIABLES
    entry,        \* the function called: "iv_call_v2" or "bs_implied_volatility"
    option_type,  \* bs_implied_volatility's option_type
    sigma_bounds, \* bs_implied_volatility's sigma_bounds
    inp,          \* market_price, S0, K, t
    cfg,          \* vol_lo, vol_hi, max_hi, xtol, rtol, maxiter as passed
    pc,           \* position in the call
    vol_hi,       \* iv_call_v2's local vol_hi
    f_lo,         \* iv_call_v2's local f_lo
    f_hi,         \* iv_call_v2's local f_hi
    doublings,    \* executions of the expansion loop's body so far
    bq,           \* brentq's locals
    evals,        \* evaluations of the objective so far
    result        \* how the call ended

vars == <<entry, option_type, sigma_bounds, inp, cfg, pc, vol_hi, f_lo, f_hi,
          doublings, bq, evals, result>>

NoResult ==
    [kind |-> "none", exc |-> "", msg |-> "", value |-> 0,
     f_lo |-> 0, lo |-> 0, f_hi |-> 0, hi |-> 0]

\* the call returned v
Returned(v) == [NoResult EXCEPT !.kind = "return", !.value = v]

\* the call ended with an exception of class e
Raised(e, m) == [NoResult EXCEPT !.kind = "raise", !.exc = e, !.msg = m]

NoBrentq ==
    [xpre |-> 0, xcur |-> 0, xblk |-> 0, fpre |-> 0, fcur |-> 0, fblk |-> 0,
     spre |-> 0, scur |-> 0, i |-> 0, funcalls |-> 0]

\* _err of iv_call_v2 (always the call formula) and objective of the
\* reference solvers
Objective(sig) ==
    IF entry = "bs_implied_volatility" /\ option_type = "put"
    THEN FSub(bs_put(inp.S0, inp.K, sig, inp.t, Rate), inp.market_price)
    ELSE FSub(bs_call(inp.S0, inp.K, sig, inp.t, Rate), inp.market_price)

\* evaluating the objective raises instead of returning
ObjectiveRaises == DividesByZero(inp.K)

Init ==
    /\ entry \in {"iv_call_v2", "bs_implied_volatility"}
    /\ inp \in PricingInputs
    /\ IF entry = "iv_call_v2"
       THEN /\ cfg \in SolverConfigs
            /\ option_type = "call"
            /\ sigma_bounds = <<cfg.vol_lo, cfg.vol_hi>>
       ELSE /\ cfg = DefaultConfig
            /\ option_type \in OptionTypes
            /\ sigma_bounds \in SigmaBounds
    /\ pc = "start"
    /\ vol_hi = cfg.vol_hi
    /\ f_lo = 0
    /\ f_hi = 0
    /\ doublings = 0
    /\ bq = NoBrentq
    /\ evals = 0
    /\ result = NoResult

\* -------------------------------------------------------------- iv_call_v2
\* SameSign with the test f_lo * f_hi >= 0
SameSign_NonNegative(a, b) == ~IsNaN(FMul(a, b)) /\ FMul(a, b) >= 0

\* f_lo * f_hi > 0
SameSign(a, b) == FGt(FMul(a, b), 0)

\* ExpandCond that doubles only while the doubled hi stays within max_hi
ExpandCond_StopBelowMax(a, b, hi, max_hi) == SameSign(a, b) /\ hi * 2 <= max_hi

\* the loop condition of the expansion
ExpandCond(a, b, hi, max_hi) == SameSign(a, b) /\ hi < max_hi

\* f_lo = _err(vol_lo); f_hi = _err(vol_hi)
EvalEndpoints ==
    /\ pc = "start"
    /\ entry = "iv_call_v2"
    /\ IF ObjectiveRaises
       THEN /\ pc' = "done"
            /\ evals' = evals + 1
            /\ result' = Raised("ZeroDivisionError", "float division by zero")
            /\ UNCHANGED <<f_lo, f_hi>>
       ELSE /\ pc' = "while"
            /\ evals' = evals + 2
            /\ f_lo' = Objective(cfg.vol_lo)
            /\ f_hi' = Objective(vol_hi)
            /\ UNCHANGED result
    /\ UNCHANGED <<entry, option_type, sigma_bounds, inp, cfg, vol_hi, doublings, bq>>

\* Expand with the doubling left out: the loop body changes nothing
Expand_NoDoubling ==
    /\ pc = "while"
    /\ ExpandCond(f_lo, f_hi, vol_hi, cfg.max_hi)
    /\ f_hi' = Objective(vol_hi)
    /\ UNCHANGED <<entry, option_type, sigma_bounds, inp, cfg, pc, vol_hi, f_lo,
                   doublings, bq, evals, result>>

\* one execution of the loop body: vol_hi *= 2.0; f_hi = _err(vol_hi)
Expand ==
    /\ pc = "while"
    /\ ExpandCond(f_lo, f_hi, vol_hi, cfg.max_hi)
    /\ vol_hi' = vol_hi * 2
    /\ f_hi' = Objective(vol_hi')
    /\ doublings' = doublings + 1
    /\ evals' = evals + 1
    /\ UNCHANGED <<entry, option_type, sigma_bounds, inp, cfg, pc, f_lo, bq, result>>

\* BracketFailed whose message reports the vol_hi passed in, not the
\* expanded one
BracketFailed_InitialHi ==
    /\ pc = "while"
    /\ ~ExpandCond(f_lo, f_hi, vol_hi, cfg.max_hi)
    /\ SameSign(f_lo, f_hi)
    /\ pc' = "done"
    /\ result' = [Raised("ValueError", "Could not bracket the root for implied vol.")
                    EXCEPT !.f_lo = f_lo, !.lo = cfg.vol_lo, !.f_hi = f_hi,
                           !.hi = cfg.vol_hi]
    /\ UNCHANGED <<entry, option_type, sigma_bounds, inp, cfg, vol_hi, f_lo, f_hi,
                   doublings, bq, evals>>

\* the loop has ended and f_lo * f_hi > 0: raise ValueError
BracketFailed ==
    /\ pc = "while"
    /\ ~ExpandCond(f_lo, f_hi, vol_hi, cfg.max_hi)
    /\ SameSign(f_lo, f_hi)
    /\ pc' = "done"
    /\ result' = [Raised("ValueError", "Could not bracket the root for implied vol.")
                    EXCEPT !.f_lo = f_lo, !.lo = cfg.vol_lo, !.f_hi = f_hi, !.hi = vol_hi]
    /\ UNCHANGED <<entry, option_type, sigma_bounds, inp, cfg, vol_hi, f_lo, f_hi,
                   doublings, bq, evals>>

\* the loop has ended and f_lo * f_hi > 0 is false: go on to brentq
RootFind ==
    /\ pc = "while"
    /\ ~ExpandCond(f_lo, f_hi, vol_hi, cfg.max_hi)
    /\ ~SameSign(f_lo, f_hi)
    /\ pc' = "brentq"
    /\ UNCHANGED <<entry, option_type, sigma_bounds, inp, cfg, vol_hi, f_lo, f_hi,
                   doublings, bq, evals, result>>

\* ------------------------------------------------- the reference solvers
\* Deliver with a bare except: every exception becomes NaN
Deliver_CatchAll(r) ==
    IF entry = "bs_implied_volatility" /\ r.kind = "raise"
    THEN Returned(NaN)
    ELSE r

\* try: return brentq(...) except ValueError: return np.nan -- what the
\* caller of brentq makes of brentq's outcome r
Deliver(r) ==
    IF entry = "bs_implied_volatility" /\ r.kind = "raise" /\ r.exc = "ValueError"
    THEN Returned(NaN)
    ELSE r

\* bs_implied_volatility: reject an unknown option type, else call
\* implied_volatility_call / implied_volatility_put, which call brentq
Dispatch ==
    /\ pc = "start"
    /\ entry = "bs_implied_volatility"
    /\ IF option_type \notin {"call", "put"}
       THEN /\ pc' = "done"
            /\ result' = Raised("ValueError", "Invalid option type.")
       ELSE /\ pc' = "brentq"
            /\ UNCHANGED result
    /\ UNCHANGED <<entry, option_type, sigma_bounds, inp, cfg, vol_hi, f_lo, f_hi,
                   doublings, bq, evals>>

\* ------------------------------------------------------------------ brentq
\* scipy.optimize.brentq, the routine both solvers call: the endpoint
\* checks, the loop of at most maxiter iterations with its convergence test
\* at the head of each iteration, ValueError for no sign change and for a
\* NaN function value, RuntimeError when the iterations run out.

\* BrentqArgs with one iteration more than the caller allows
BrentqArgs_ExtraIteration ==
    IF entry = "iv_call_v2"
    THEN [a |-> cfg.vol_lo, b |-> vol_hi, xtol |-> cfg.xtol,
          rtol_den |-> cfg.rtol_den, maxiter |-> cfg.maxiter + 1]
    ELSE [a |-> sigma_bounds[1], b |-> sigma_bounds[2], xtol |-> BrentqDefaults.xtol,
          rtol_den |-> BrentqDefaults.rtol_den, maxiter |-> BrentqDefaults.maxiter]

\* the arguments of the brentq call: iv_call_v2 passes its own bracket and
\* tolerances, the reference solvers pass sigma_bounds and nothing else
BrentqArgs ==
    IF entry = "iv_call_v2"
    THEN [a |-> cfg.vol_lo, b |-> vol_hi, xtol |-> cfg.xtol,
          rtol_den |-> cfg.rtol_den, maxiter |-> cfg.maxiter]
    ELSE [a |-> sigma_bounds[1], b |-> sigma_bounds[2], xtol |-> BrentqDefaults.xtol,
          rtol_den |-> BrentqDefaults.rtol_den, maxiter |-> BrentqDefaults.maxiter]

\* signbit(x) != signbit(y) for two numbers
OppositeSign(x, y) == (x < 0) # (y < 0)

\* brentq refuses a NaN function value: SciPy wraps the function and raises
\* ValueError at the first NaN it returns
NaNError == Raised("ValueError", "The function value is NaN; solver cannot continue.")

\* an exception raised by the objective itself passes through brentq
ObjectiveError == Raised("ZeroDivisionError", "float division by zero")

\* delta = (xtol + rtol*fabs(xcur))/2
Delta(xtol, rtol_den, xcur) == Quot(xtol + Quot(Abs(xcur), rtol_den), 2)

\* the two function values on entry decide: a root at an endpoint, no sign
\* change, or the iteration
BrentqStart ==
    /\ pc = "brentq"
    /\ LET a == BrentqArgs.a
           b == BrentqArgs.b
           fa == Objective(a)
           fb == Objective(b)
           end(r, n) == /\ pc' = "done"
                        /\ result' = Deliver(r)
                        /\ evals' = evals + n
                        /\ bq' = [bq EXCEPT !.funcalls = n]
       IN  IF ObjectiveRaises THEN end(ObjectiveError, 1)
           ELSE IF IsNaN(fa) THEN end(NaNError, 1)
           ELSE IF IsNaN(fb) THEN end(NaNError, 2)
           ELSE IF fa = 0 THEN end(Returned(a), 2)
           ELSE IF fb = 0 THEN end(Returned(b), 2)
           ELSE IF ~OppositeSign(fa, fb)
                THEN end(Raised("ValueError", "f(a) and f(b) must have different signs"), 2)
           ELSE /\ pc' = "brentq_loop"
                /\ bq' = [NoBrentq EXCEPT !.xpre = a, !.xcur = b, !.fpre = fa,
                                          !.fcur = fb, !.funcalls = 2]
                /\ evals' = evals + 2
                /\ UNCHANGED result
    /\ UNCHANGED <<entry, option_type, sigma_bounds, inp, cfg, vol_hi, f_lo, f_hi,
                   doublings>>

\* the head of one iteration: re-establish the bracket xcur..xblk and keep
\* the better point in xcur
Rebracket(s) ==
    LET s1 == IF s.fpre # 0 /\ s.fcur # 0 /\ OppositeSign(s.fpre, s.fcur)
              THEN [s EXCEPT !.xblk = s.xpre, !.fblk = s.fpre,
                             !.spre = s.xcur - s.xpre, !.scur = s.xcur - s.xpre]
              ELSE s
    IN  IF Abs(s1.fblk) < Abs(s1.fcur)
        THEN [s1 EXCEPT !.xpre = s1.xcur, !.xcur = s1.xblk, !.xblk = s1.xcur,
                        !.fpre = s1.fcur, !.fcur = s1.fblk, !.fblk = s1.fcur]
        ELSE s1

\* sbis = (xblk - xcur)/2
Sbis(s) == Quot(s.xblk - s.xcur, 2)

\* BrentqConverged that accepts a bracket four times too wide
BrentqConverged_Loose(s, delta) == s.fcur = 0 \/ Abs(Sbis(s)) < 4 * delta

\* the convergence test of an iteration
BrentqConverged(s, delta) == s.fcur = 0 \/ Abs(Sbis(s)) < delta

\* the step of an iteration that has not converged: interpolate (secant or
\* inverse quadratic) when the step is short enough, bisect otherwise; a
\* zero denominator gives inf or NaN in the source and so a bisection
NextPoint(s, delta) ==
    LET sbis == Sbis(s)
        num == IF s.xpre = s.xblk
               THEN -s.fcur * (s.xcur - s.xpre)
               ELSE -s.fcur * (s.fblk * (s.fblk - s.fcur) * (s.xpre - s.xcur)
                               - s.fpre * (s.fpre - s.fcur) * (s.xblk - s.xcur))
        den == IF s.xpre = s.xblk
               THEN s.fcur - s.fpre
               ELSE (s.fblk - s.fcur) * (s.fpre - s.fcur) * (s.fblk - s.fpre)
        try == Abs(s.spre) > delta /\ Abs(s.fcur) < Abs(s.fpre) /\ den # 0
        stry == IF try THEN Quot(num, den) ELSE 0
        short == try /\ 2 * Abs(stry) < Min(Abs(s.spre), 3 * Abs(sbis) - delta)
        spre2 == IF short THEN s.scur ELSE sbis
        scur2 == IF short THEN stry ELSE sbis
        step == IF Abs(scur2) > delta THEN scur2
                ELSE IF sbis > 0 THEN delta ELSE -delta
    IN  [s EXCEPT !.spre = spre2, !.scur = scur2, !.xpre = s.xcur, !.fpre = s.fcur,
                  !.xcur = s.xcur + step]

\* one pass through the for loop of brentq
BrentqIter ==
    /\ pc = "brentq_loop"
    /\ bq.i < BrentqArgs.maxiter
    /\ LET s == Rebracket(bq)
           delta == Delta(BrentqArgs.xtol, BrentqArgs.rtol_den, s.xcur)
           n == NextPoint(s, delta)
           fnew == Objective(n.xcur)
       IN  IF BrentqConverged(s, delta)
           THEN /\ pc' = "done"
                /\ result' = Deliver(Returned(s.xcur))
                /\ bq' = [s EXCEPT !.i = s.i + 1]
                /\ UNCHANGED evals
           ELSE IF IsNaN(fnew)
           THEN /\ pc' = "done"
                /\ result' = Deliver(NaNError)
                /\ bq' = [n EXCEPT !.i = n.i + 1, !.funcalls = n.funcalls + 1]
                /\ evals' = evals + 1
           ELSE /\ bq' = [n EXCEPT !.fcur = fnew, !.i = n.i + 1,
                                   !.funcalls = n.funcalls + 1]
                /\ evals' = evals + 1
                /\ UNCHANGED <<pc, result>>
    /\ UNCHANGED <<entry, option_type, sigma_bounds, inp, cfg, vol_hi, f_lo, f_hi,
                   doublings>>

\* BrentqExhausted as with disp=False: the last estimate is returned
BrentqExhausted_ReturnsEstimate ==
    /\ pc = "brentq_loop"
    /\ bq.i >= BrentqArgs.maxiter
    /\ pc' = "done"
    /\ result' = Deliver(Returned(bq.xcur))
    /\ UNCHANGED <<entry, option_type, sigma_bounds, inp, cfg, vol_hi, f_lo, f_hi,
                   doublings, bq, evals>>

\* the for loop ran maxiter times without converging: RuntimeError (disp is
\* left at its default)
BrentqExhausted ==
    /\ pc = "brentq_loop"
    /\ bq.i >= BrentqArgs.maxiter
    /\ pc' = "done"
    /\ result' = Deliver(Raised("RuntimeError", "Failed to converge"))
    /\ UNCHANGED <<entry, option_type, sigma_bounds, inp, cfg, vol_hi, f_lo, f_hi,
                   doublings, bq, evals>>

\* the steps of a call of iv_call_v2
IvNext ==
    \/ EvalEndpoints
    \/ Expand
    \/ BracketFailed
    \/ RootFind
    \/ BrentqStart
    \/ BrentqIter
    \/ BrentqExhausted

Next ==
    \/ IvNext
    \/ Dispatch

Spec == Init /\ [][Next]_vars

\* the configurations that differ in what the expansion loop reads (vol_lo,
\* vol_hi, max_hi), each with one choice of brentq's tolerances and budget
ExpansionConfigs ==
    {c \in SolverConfigs : c = DefaultConfig \/ (c.maxiter = 1 /\ c.rtol_den = 4)}

\* the calls of iv_call_v2 over those configurations
IvInit == Init /\ entry = "iv_call_v2" /\ cfg \in ExpansionConfigs

\* a call of iv_call_v2 that has not ended takes its next step: the call is
\* synchronous and single-threaded
FairSpec == IvInit /\ [][IvNext]_vars /\ WF_vars(IvNext)

\* ------------------------------------------------------------------ claims
IvCall == entry = "iv_call_v2"

Reference == entry = "bs_implied_volatility" /\ option_type \in {"call", "put"}

\* the expansion has stopped with both endpoint values of the same sign
StoppedSameSign ==
    /\ IvCall
    /\ pc = "while"
    /\ ~ExpandCond(f_lo, f_hi, vol_hi, cfg.max_hi)
    /\ SameSign(f_lo, f_hi)

\* the result is the bracket failure of iv_call_v2, with its four diagnostics
IsBracketFailure(r) ==
    /\ r.msg = "Could not bracket the root for implied vol."
    /\ r.f_lo = f_lo
    /\ r.lo = cfg.vol_lo
    /\ r.f_hi = f_hi
    /\ r.hi = vol_hi

\* C1 as stated: when the expansion stops with f_lo * f_hi > 0 the call ends
\* by returning a bracket-failure value carrying f_lo, lo, f_hi, hi, and
\* does not raise.
C1_ReturnsBracketFailed ==
    [][StoppedSameSign =>
         (pc' = "done" /\ result'.kind = "return" /\ IsBracketFailure(result'))]_vars

\* C1 amended: when the expansion stops with f_lo * f_hi > 0 the call ends
\* by raising ValueError, whose message carries the last evaluated f_lo, lo,
\* f_hi and hi; it returns nothing.
C1_RaisesBracketFailed ==
    [][StoppedSameSign =>
         (/\ pc' = "done"
          /\ result'.kind = "raise"
          /\ result'.exc = "ValueError"
          /\ IsBracketFailure(result'))]_vars

C1_Witness ==
    /\ IvCall
    /\ pc = "done"
    /\ doublings > 0
    /\ SameSign(f_lo, f_hi)
    /\ result.kind = "raise"
    /\ result.hi = vol_hi

\* C2: during and after the expansion hi never exceeds max_hi.
C2_HiCapped == IvCall => vol_hi <= cfg.max_hi

\* C3: every call of iv_call_v2 whose objective evaluates leaves the
\* expansion loop: it reaches the brentq call or the bracket failure.
C3_ExpansionTerminates ==
    (IvCall /\ pc = "start" /\ ~ObjectiveRaises)
        ~> (pc = "brentq" \/ (pc = "done" /\ IsBracketFailure(result)))

\* a sign that never changes (market price above spot), loop run to the end
C3_Witness ==
    /\ IvCall
    /\ pc = "done"
    /\ inp.market_price # NaN
    /\ inp.market_price > inp.S0
    /\ doublings >= 2
    /\ IsBracketFailure(result)

\* brentq has used up its iterations inside iv_call_v2
BudgetExhausted == IvCall /\ pc = "brentq_loop" /\ bq.i >= BrentqArgs.maxiter

\* C4 as stated: with the budget exhausted the call reports a NotConverged
\* value; it does not raise and does not return the estimate.
C4_ReportsNotConverged ==
    [][BudgetExhausted => (pc' = "done" /\ result'.kind # "raise")]_vars

\* C4 amended: with the budget exhausted the call raises RuntimeError, which
\* is neither the ValueError of the bracket failure nor a returned
\* volatility; the estimate is not returned.
C4_RaisesRuntimeError ==
    [][BudgetExhausted =>
         (/\ pc' = "done"
          /\ result'.kind = "raise"
          /\ result'.exc = "RuntimeError"
          /\ ~IsBracketFailure(result'))]_vars

C4_Witness ==
    /\ IvCall
    /\ pc = "done"
    /\ ~SameSign(f_lo, f_hi)
    /\ bq.i = cfg.maxiter
    /\ result.exc = "RuntimeError"

\* C5: with f_lo = 0 or f_hi = 0 the loop stops, nothing is reported and the
\* call goes on to brentq with the interval lo..hi it has; a bracket failure
\* is never reported with a zero endpoint value.
C5_ZeroEndpointProceeds ==
    /\ [][(IvCall /\ pc = "while" /\ (f_lo = 0 \/ f_hi = 0)) =>
            (/\ pc' = "brentq"
             /\ vol_hi' = vol_hi
             /\ doublings' = doublings
             /\ result'.kind = "none")]_vars
    /\ []((IvCall /\ pc = "done" /\ IsBracketFailure(result)) => (f_lo # 0 /\ f_hi # 0))

\* f_hi is exactly zero at an expanded hi
C5_Witness ==
    /\ IvCall
    /\ pc = "brentq"
    /\ f_hi = 0
    /\ f_lo # 0
    /\ doublings > 0
    /\ BrentqArgs.b = vol_hi

\* valid pricing inputs: spot, strike and time to expiry positive
ValidInputs == inp.K > 0 /\ inp.t > 0 /\ inp.market_price # NaN

\* the market price is the model price at volatility sigma, the solver is
\* called with its defaults
RoundTrip(sigma) ==
    /\ IvCall
    /\ cfg = DefaultConfig
    /\ ValidInputs
    /\ inp.market_price = bs_call(inp.S0, inp.K, sigma, inp.t, Rate)

\* xtol + rtol*|x|, the width brentq converges to
Tolerance(x) == cfg.xtol + Quot(Abs(x), cfg.rtol_den)

OnlyRoot(sigma, lo, hi) ==
    \A x \in lo..hi : x # sigma => Objective(x) # 0

HiReached(k) == cfg.vol_hi * (2 ^ k)

\* no volatility reproduces the market price: the objective is positive
\* already at lo (it is nondecreasing), or negative at every hi reached
NoVolReproduces ==
    /\ ~ObjectiveRaises
    /\ \/ FGt(Objective(cfg.vol_lo), 0)
       \/ \A k \in 0..doublings : FGt(0, Objective(HiReached(k)))

\* C7: when no volatility reproduces the market price the call never
\* returns a volatility; it expands until hi >= max_hi and ends in the
\* bracket failure.
C7_NoRootEndsInBracketFailure ==
    (IvCall /\ pc = "done" /\ NoVolReproduces) =>
        (/\ result.kind # "return"
         /\ IsBracketFailure(result)
         /\ vol_hi >= cfg.max_hi
         /\ vol_hi = HiReached(doublings))

\* a call priced below its intrinsic value
C7_Witness ==
    /\ IvCall
    /\ pc = "done"
    /\ ValidInputs
    /\ inp.market_price < inp.S0 - inp.K
    /\ doublings > 0
    /\ IsBracketFailure(result)

\* C8 as stated: every failure of a reference solver comes back as NaN and
\* nothing escapes as an exception.
C8_EveryFailureIsNaN == (Reference /\ pc = "done") => result.kind = "return"

\* brentq itself rejects the bounds: a NaN function value or no sign change
BrentqRejects ==
    LET fa == Objective(sigma_bounds[1])
        fb == Objective(sigma_bounds[2])
    IN  \/ IsNaN(fa)
        \/ IsNaN(fb)
        \/ (fa # 0 /\ fb # 0 /\ ~OppositeSign(fa, fb))

\* C8 amended: a reference solver returns NaN exactly for the failures
\* brentq raises as ValueError (no sign change over sigma_bounds, a NaN
\* function value); an exception of another class (brentq's RuntimeError for
\* non-convergence, the ZeroDivisionError of a zero strike) escapes.
C8_OnlyValueErrorIsNaN ==
    (Reference /\ pc = "done") =>
        IF ObjectiveRaises
        THEN result.kind = "raise" /\ result.exc = "ZeroDivisionError"
        ELSE IF BrentqRejects
        THEN result = Returned(NaN)
        ELSE \/ result.kind = "return" /\ result.value # NaN
             \/ result.kind = "raise" /\ result.exc = "RuntimeError"

\* no sign change over sigma_bounds, reported as NaN
C8_Witness ==
    /\ Reference
    /\ pc = "done"
    /\ ValidInputs
    /\ bq.funcalls = 2
    /\ BrentqRejects
    /\ result = Returned(NaN)

\* C9 as stated: a call evaluates the objective at most maxiter times.
C9_AtMostMaxIter == (IvCall /\ ValidInputs) => evals <= cfg.maxiter

\* C9 amended: a call evaluates the objective at most maxiter + 4 times plus
\* once per doubling: two endpoint evaluations of its own, one per doubling,
\* brentq's two endpoint evaluations and one per brentq iteration.
C9_EvaluationBudget ==
    IvCall =>
        /\ evals <= cfg.maxiter + 4 + doublings
        /\ evals = (IF pc = "start" THEN 0 ELSE IF ObjectiveRaises THEN 1 ELSE 2)
                    + doublings + bq.funcalls
        /\ bq.funcalls <= 2 + cfg.maxiter

\* the budget is met exactly by a run that doubles and does not converge
C9_Witness ==
    /\ IvCall
    /\ pc = "done"
    /\ doublings > 0
    /\ evals = cfg.maxiter + 4 + doublings

\* C10: brentq is entered only with the bracket lo..hi of the expansion,
\* with f_lo and f_hi the objective at those endpoints, both numbers, of
\* opposite signs or one of them zero.
C10_GenuineBracket ==
    (IvCall /\ pc = "brentq") =>
        /\ BrentqArgs.a = cfg.vol_lo
        /\ BrentqArgs.b = vol_hi
        /\ f_lo = Objective(cfg.vol_lo)
        /\ f_hi = Objective(vol_hi)
        /\ ~IsNaN(f_lo)
        /\ ~IsNaN(f_hi)
        /\ (f_lo = 0 \/ f_hi = 0 \/ OppositeSign(f_lo, f_hi))

====
